---- MODULE Spec2Model ----
(***************************************************************************)
(* A model of paris-lang: the tree-walking evaluator `eval` (src/lib.rs),  *)
(* the driver loop of `main` (src/main.rs) and the `range`/`number`/`op`   *)
(* part of the grammar built by `lexer` (src/lib.rs).                      *)
(*                                                                         *)
(* Text is a sequence of one-character strings.  The recursion of `eval`   *)
(* is an explicit stack of frames, one per active call, and `ret` is the   *)
(* Result handed from a finished call to its caller.                       *)
(***************************************************************************)
EXTENDS Integers, Sequences, FiniteSets, TLC

VARIABLES
    ast,        \* main: the parsed program, Vec<Spanned>
    idx,        \* main: position of `for node in ast`
    variables,  \* main/eval: HashMap<String, Value>
    errs,       \* main: the evaluation errors pushed onto `errs`
    stdout,     \* the characters written by println! (eval) and print! (main)
    stack,      \* the active calls of eval, innermost last
    ret,        \* the Result returned by the call that just finished
    mode,       \* "run", or "panic" once eval has hit panic!
    src,        \* lexer: the source text
    rest,       \* lexer: the input not yet consumed
    toks,       \* lexer: the nodes produced so far by `.repeated()`
    lexpc       \* lexer: "items", "ok" or "err"

vars == <<ast, idx, variables, errs, stdout, stack, ret, mode, src, rest, toks, lexpc>>
evalVars == <<ast, idx, variables, errs, stdout, stack, ret, mode>>
lexVars == <<src, rest, toks, lexpc>>

\* Bounds of the model: the largest range endpoint, the longest loop body,
\* the longest straight-line program and the most characters written.
MaxInt == 2
MaxBody == 2
MaxProg == 3
MaxOut == 8

----------------------------------------------------------------------------
(* Text helpers *)

DigitChars == <<"0", "1", "2", "3", "4", "5", "6", "7", "8", "9">>

RECURSIVE NatText(_)
NatText(n) ==
    IF n < 10 THEN <<DigitChars[n + 1]>>
    ELSE NatText(n \div 10) \o <<DigitChars[(n % 10) + 1]>>

\* `{}` of an i64
IntText(i) == IF i < 0 THEN <<"-">> \o NatText(-i) ELSE NatText(i)

\* An f64 that is a finite decimal: sign, integer digits without leading
\* zeros, fraction digits without trailing zeros.
F64(neg, ip, fp) == [neg |-> neg, ip |-> ip, fp |-> fp]

\* `n > 0.0`
F64Positive(n) == ~n.neg /\ (n.ip # <<"0">> \/ n.fp # <<>>)

\* `{}` of an f64: no ".0" on a whole number
F64Text(n) ==
    (IF n.neg THEN <<"-">> ELSE <<>>) \o n.ip
        \o (IF n.fp = <<>> THEN <<>> ELSE <<".">> \o n.fp)

----------------------------------------------------------------------------
(* Value *)

VNull == [t |-> "Null"]
VString(s) == [t |-> "String", s |-> s]
VNumber(n) == [t |-> "Number", n |-> n]
VRange(a, b) == [t |-> "Range", start |-> a, end |-> b]
VBoolean(b) == [t |-> "Boolean", b |-> b]

\* impl Display for Value
ValueText(v) ==
    CASE v.t = "Null" -> <<>>
      [] v.t = "String" -> v.s
      [] v.t = "Number" -> F64Text(v.n)
      [] v.t = "Boolean" -> IF v.b THEN <<"t", "r", "u", "e">>
                                   ELSE <<"f", "a", "l", "s", "e">>
      [] v.t = "Range" -> IntText(v.start) \o <<".", ".">> \o IntText(v.end)

----------------------------------------------------------------------------
(* Node, without its span *)

NumericLiteral(n) == [kind |-> "NumericLiteral", n |-> n]
StringLiteral(s) == [kind |-> "StringLiteral", s |-> s]
BooleanLiteral(b) == [kind |-> "BooleanLiteral", b |-> b]
Ident(name) == [kind |-> "Ident", name |-> name]
Op(o) == [kind |-> "Op", op |-> o]
Call(callee, args) == [kind |-> "Call", callee |-> callee, args |-> args]
While(cond, body) == [kind |-> "While", cond |-> cond, body |-> body]
Range(a, b) == [kind |-> "Range", start |-> a, end |-> b]
Variable(name, value) == [kind |-> "Variable", name |-> name, value |-> value]

LiteralKinds == {"StringLiteral", "NumericLiteral", "BooleanLiteral", "Range"}

\* Spanned = (Node, Range<usize>): the node with the span <<p, p + w>> and
\* its children with disjoint spans inside it, a tenth as wide.
RECURSIVE Spanned(_, _, _)
SpannedSeq(ns, p, w, first) ==
    [j \in 1..Len(ns) |-> Spanned(ns[j], p + 1 + (first + j - 1) * (w \div 10), w \div 10)]
Spanned(n, p, w) ==
    LET sp == <<p, p + w>> IN
    CASE n.kind = "NumericLiteral" -> [kind |-> n.kind, n |-> n.n, span |-> sp]
      [] n.kind = "StringLiteral" -> [kind |-> n.kind, s |-> n.s, span |-> sp]
      [] n.kind = "BooleanLiteral" -> [kind |-> n.kind, b |-> n.b, span |-> sp]
      [] n.kind = "Ident" -> [kind |-> n.kind, name |-> n.name, span |-> sp]
      [] n.kind = "Op" -> [kind |-> n.kind, op |-> n.op, span |-> sp]
      [] n.kind = "Range" ->
            [kind |-> n.kind, start |-> n.start, end |-> n.end, span |-> sp]
      [] n.kind = "Call" ->
            [kind |-> n.kind, callee |-> Spanned(n.callee, p, w \div 10),
             args |-> SpannedSeq(n.args, p, w, 1), span |-> sp]
      [] n.kind = "While" ->
            [kind |-> n.kind, cond |-> Spanned(n.cond, p + 1, w \div 10),
             body |-> SpannedSeq(n.body, p, w, 1), span |-> sp]
      [] n.kind = "Variable" ->
            [kind |-> n.kind, name |-> n.name,
             value |-> Spanned(n.value, p + 1, w \div 10), span |-> sp]

----------------------------------------------------------------------------
(* EvaluationError and Result *)

FunctionNotFound(name, span) ==
    [kind |-> "FunctionNotFound", name |-> name, span |-> span]
VariableNotFound(name, span) ==
    [kind |-> "VariableNotFound", name |-> name, span |-> span]

None == [tag |-> "None"]
Ok(v) == [tag |-> "Ok", val |-> v]
Err(e) == [tag |-> "Err", err |-> e]

----------------------------------------------------------------------------
(* eval: one frame per active call *)

\* A call of eval on `node` that has not started.  `k` is the position in
\* `args` or `body`, `result` the String built by display, `condition` the
\* local of that name, `it`/`end` the state of the iterator `start..end`.
\* `evals` and `iters` are history: how often this While evaluated its
\* condition and how many passes of `for _ in start..end` it started; `out0`
\* is the length of stdout when the loop was entered.
Frame(node) ==
    [node |-> node, pc |-> "enter", k |-> 0, result |-> <<>>,
     condition |-> VNull, it |-> 0, end |-> 0,
     evals |-> 0, iters |-> 0, out0 |-> 0]

Top == stack[Len(stack)]
Pop == SubSeq(stack, 1, Len(stack) - 1)
SetTop(f) == [stack EXCEPT ![Len(stack)] = f]
Call_(f, node) == Append(SetTop(f), Frame(node))

Running == mode = "run" /\ stack # <<>>
Entering(kinds) == Running /\ Top.pc = "enter" /\ Top.node.kind \in kinds

\* `return r` / falling out of the match: the call ends with Result r
Return(r) ==
    /\ stack' = Pop
    /\ ret' = r

LiteralValue(n) ==
    CASE n.kind = "StringLiteral" -> VString(n.s)
      [] n.kind = "NumericLiteral" -> VNumber(n.n)
      [] n.kind = "BooleanLiteral" -> VBoolean(n.b)
      [] n.kind = "Range" -> VRange(n.start, n.end)

\* Node::StringLiteral | NumericLiteral | BooleanLiteral | Range
EvalLiteral ==
    /\ Entering(LiteralKinds)
    /\ Return(Ok(LiteralValue(Top.node)))
    /\ UNCHANGED <<ast, idx, variables, errs, stdout, mode>>

\* variables.get(ident)
Lookup(node) ==
    IF node.name \in DOMAIN variables
    THEN Ok(variables[node.name])
    ELSE Err(VariableNotFound(node.name, node.span))

\* Node::Ident
EvalIdent ==
    /\ Entering({"Ident"})
    /\ Return(Lookup(Top.node))
    /\ UNCHANGED <<ast, idx, variables, errs, stdout, mode>>

\* n => panic!("not implemented: {:?}", n): only Op is left for this arm
EvalOp ==
    /\ Entering({"Op"})
    /\ mode' = "panic"
    /\ UNCHANGED <<ast, idx, variables, errs, stdout, stack, ret>>

\* The `?` after a nested eval: an Err ends the caller with the same Err.
Propagate ==
    /\ Running
    /\ Top.pc # "enter"
    /\ ret.tag = "Err"
    /\ Return(ret)
    /\ UNCHANGED <<ast, idx, variables, errs, stdout, mode>>

(* Node::Call *)

IsDisplay(node) == node.callee.kind = "Ident" /\ node.callee.name = "display"

\* callee is Ident("display"): `let mut result = String::new()`
CallDisplay ==
    /\ Entering({"Call"})
    /\ IsDisplay(Top.node)
    /\ stack' = SetTop([Top EXCEPT !.pc = "args", !.k = 1, !.result = <<>>])
    /\ UNCHANGED <<ast, idx, variables, errs, stdout, ret, mode>>

\* CallNotFound with the span of the whole call, node.1
CallNotFoundCallSpan ==
    /\ Entering({"Call"})
    /\ Top.node.callee.kind = "Ident"
    /\ Top.node.callee.name # "display"
    /\ Return(Err(FunctionNotFound(Top.node.callee.name, Top.node.span)))
    /\ UNCHANGED <<ast, idx, variables, errs, stdout, mode>>

\* callee is another Ident: Err(FunctionNotFound(name), cname.1)
CallNotFound ==
    /\ Entering({"Call"})
    /\ Top.node.callee.kind = "Ident"
    /\ Top.node.callee.name # "display"
    /\ Return(Err(FunctionNotFound(Top.node.callee.name, Top.node.callee.span)))
    /\ UNCHANGED <<ast, idx, variables, errs, stdout, mode>>

\* callee is no Ident: the `if let` does not match and the arm falls
\* through to Ok(Value::Null)
CallNonIdent ==
    /\ Entering({"Call"})
    /\ Top.node.callee.kind # "Ident"
    /\ Return(Ok(VNull))
    /\ UNCHANGED <<ast, idx, variables, errs, stdout, mode>>

\* for arg in args { let value = eval(source, arg, variables)
CallArg ==
    /\ Running
    /\ Top.pc = "args"
    /\ ret.tag = "None"
    /\ Top.k <= Len(Top.node.args)
    /\ stack' = Call_(Top, Top.node.args[Top.k])
    /\ UNCHANGED <<ast, idx, variables, errs, stdout, ret, mode>>

\* CallArgRet with the arguments joined by a space
CallArgRetSeparated ==
    /\ Running
    /\ Top.pc = "args"
    /\ ret.tag = "Ok"
    /\ stack' = SetTop([Top EXCEPT !.k = @ + 1,
                                   !.result = @ \o <<" ">> \o ValueText(ret.val)])
    /\ ret' = None
    /\ UNCHANGED <<ast, idx, variables, errs, stdout, mode>>

\* result += &value.to_string()
CallArgRet ==
    /\ Running
    /\ Top.pc = "args"
    /\ ret.tag = "Ok"
    /\ stack' = SetTop([Top EXCEPT !.k = @ + 1,
                                   !.result = @ \o ValueText(ret.val)])
    /\ ret' = None
    /\ UNCHANGED <<ast, idx, variables, errs, stdout, mode>>

\* println!("{}", result), then Ok(Value::Null)
CallPrintln ==
    /\ Running
    /\ Top.pc = "args"
    /\ ret.tag = "None"
    /\ Top.k > Len(Top.node.args)
    /\ Len(stdout) + Len(Top.result) + 1 <= MaxOut
    /\ stdout' = stdout \o Top.result \o <<"\n">>
    /\ Return(Ok(VNull))
    /\ UNCHANGED <<ast, idx, variables, errs, mode>>

(* Node::Variable *)

\* let val = eval(source, value, variables)
VariableEnter ==
    /\ Entering({"Variable"})
    /\ stack' = Call_([Top EXCEPT !.pc = "value"], Top.node.value)
    /\ UNCHANGED <<ast, idx, variables, errs, stdout, ret, mode>>

\* Insert that keeps an existing binding
InsertIfAbsent(m, name, val) ==
    [x \in DOMAIN m \cup {name} |-> IF x \in DOMAIN m THEN m[x] ELSE val]

\* HashMap::insert
Insert(m, name, val) ==
    [x \in DOMAIN m \cup {name} |-> IF x = name THEN val ELSE m[x]]

\* variables.insert(name.to_string(), val), then Ok(Value::Null)
VariableInsert ==
    /\ Running
    /\ Top.pc = "value"
    /\ ret.tag = "Ok"
    /\ variables' = Insert(variables, Top.node.name, ret.val)
    /\ Return(Ok(VNull))
    /\ UNCHANGED <<ast, idx, errs, stdout, mode>>

(* Node::While *)

\* let condition = eval(source, cond, variables)
WhileEnter ==
    /\ Entering({"While"})
    /\ stack' = Call_([Top EXCEPT !.pc = "cond", !.evals = @ + 1], Top.node.cond)
    /\ UNCHANGED <<ast, idx, variables, errs, stdout, ret, mode>>

\* The call on `cond` has returned Ok: `match condition`
Matching(t) ==
    /\ Running
    /\ Top.pc = "cond"
    /\ ret.tag = "Ok"
    /\ ret.val.t = t

\* `loop {`: entered, and never left except by `?`
EnterLoop ==
    /\ stack' = SetTop([Top EXCEPT !.pc = "loop", !.k = 1, !.condition = ret.val,
                                   !.out0 = Len(stdout)])
    /\ ret' = None

\* Value::Number(n) => if n > 0.0 { loop { .. } }
WhileNumber ==
    /\ Matching("Number")
    /\ IF F64Positive(ret.val.n) THEN EnterLoop ELSE Return(Ok(VNull))
    /\ UNCHANGED <<ast, idx, variables, errs, stdout, mode>>

\* Value::Boolean(bool) => if bool { loop { .. } }
WhileBoolean ==
    /\ Matching("Boolean")
    /\ IF ret.val.b THEN EnterLoop ELSE Return(Ok(VNull))
    /\ UNCHANGED <<ast, idx, variables, errs, stdout, mode>>

\* Value::Range(start, end) => for _ in start..end: the iterator is built
WhileRange ==
    /\ Matching("Range")
    /\ stack' = SetTop([Top EXCEPT !.pc = "range", !.k = Len(Top.node.body) + 1,
                                   !.condition = ret.val, !.it = ret.val.start,
                                   !.end = ret.val.end, !.out0 = Len(stdout)])
    /\ ret' = None
    /\ UNCHANGED <<ast, idx, variables, errs, stdout, mode>>

\* _ => {}
WhileOther ==
    /\ Running
    /\ Top.pc = "cond"
    /\ ret.tag = "Ok"
    /\ ret.val.t \in {"Null", "String"}
    /\ Return(Ok(VNull))
    /\ UNCHANGED <<ast, idx, variables, errs, stdout, mode>>

\* RangeNext that goes back to evaluate the condition again after each pass
RangeNextReevaluates ==
    /\ Running
    /\ Top.pc = "range"
    /\ ret.tag = "None"
    /\ Top.k > Len(Top.node.body)
    /\ IF Top.it < Top.end
       THEN /\ stack' = SetTop([Top EXCEPT !.it = @ + 1, !.k = 1, !.iters = @ + 1])
            /\ ret' = ret
       ELSE /\ stack' = SetTop([Top EXCEPT !.pc = "enter"])
            /\ ret' = ret
    /\ UNCHANGED <<ast, idx, variables, errs, stdout, mode>>

\* RangeNext with `start..=end`
RangeNextInclusive ==
    /\ Running
    /\ Top.pc = "range"
    /\ ret.tag = "None"
    /\ Top.k > Len(Top.node.body)
    /\ IF Top.it <= Top.end
       THEN /\ stack' = SetTop([Top EXCEPT !.it = @ + 1, !.k = 1, !.iters = @ + 1])
            /\ ret' = ret
       ELSE Return(Ok(VNull))
    /\ UNCHANGED <<ast, idx, variables, errs, stdout, mode>>

\* Range<i64>::next: Some while it < end; on None the arm ends and eval
\* returns Ok(Value::Null)
RangeNext ==
    /\ Running
    /\ Top.pc = "range"
    /\ ret.tag = "None"
    /\ Top.k > Len(Top.node.body)
    /\ IF Top.it < Top.end
       THEN /\ stack' = SetTop([Top EXCEPT !.it = @ + 1, !.k = 1, !.iters = @ + 1])
            /\ ret' = ret
       ELSE Return(Ok(VNull))
    /\ UNCHANGED <<ast, idx, variables, errs, stdout, mode>>

\* LoopAgain without the `loop`: one pass, then Ok(Value::Null)
LoopOnce ==
    /\ Running
    /\ Top.pc = "loop"
    /\ ret.tag = "None"
    /\ Top.k > Len(Top.node.body)
    /\ Return(Ok(VNull))
    /\ UNCHANGED <<ast, idx, variables, errs, stdout, mode>>

\* `loop`: the end of the inner `for` starts the next pass, unconditionally
LoopAgain ==
    /\ Running
    /\ Top.pc = "loop"
    /\ ret.tag = "None"
    /\ Top.k > Len(Top.node.body)
    /\ stack' = SetTop([Top EXCEPT !.k = 1])
    /\ UNCHANGED <<ast, idx, variables, errs, stdout, ret, mode>>

\* for node in body { eval(source, node, variables)
BodyStmt ==
    /\ Running
    /\ Top.pc \in {"loop", "range"}
    /\ ret.tag = "None"
    /\ Top.k <= Len(Top.node.body)
    /\ stack' = Call_(Top, Top.node.body[Top.k])
    /\ UNCHANGED <<ast, idx, variables, errs, stdout, ret, mode>>

\* BodyRet without the `?`: a failed statement is dropped like a value
BodyRetIgnoresErr ==
    /\ Running
    /\ Top.pc \in {"loop", "range"}
    /\ ret.tag \in {"Ok", "Err"}
    /\ stack' = SetTop([Top EXCEPT !.k = @ + 1])
    /\ ret' = None
    /\ UNCHANGED <<ast, idx, variables, errs, stdout, mode>>

\* ...?; }: the statement's value is dropped
BodyRet ==
    /\ Running
    /\ Top.pc \in {"loop", "range"}
    /\ ret.tag = "Ok"
    /\ stack' = SetTop([Top EXCEPT !.k = @ + 1])
    /\ ret' = None
    /\ UNCHANGED <<ast, idx, variables, errs, stdout, mode>>

----------------------------------------------------------------------------
(* main: the driver loop *)

\* for node in ast { match eval(&src.clone().into(), node, &mut variables)
MainEval ==
    /\ mode = "run"
    /\ stack = <<>>
    /\ ret.tag = "None"
    /\ idx <= Len(ast)
    /\ stack' = <<Frame(ast[idx])>>
    /\ UNCHANGED <<ast, idx, variables, errs, stdout, ret, mode>>

\* Ok(val) => print!("{}", val)
MainOk ==
    /\ mode = "run"
    /\ stack = <<>>
    /\ ret.tag = "Ok"
    /\ Len(stdout) + Len(ValueText(ret.val)) <= MaxOut
    /\ stdout' = stdout \o ValueText(ret.val)
    /\ idx' = idx + 1
    /\ ret' = None
    /\ UNCHANGED <<ast, variables, errs, stack, mode>>

\* MainErr that leaves the loop at the first error
MainErrBreak ==
    /\ mode = "run"
    /\ stack = <<>>
    /\ ret.tag = "Err"
    /\ errs' = Append(errs, ret.err)
    /\ idx' = Len(ast) + 1
    /\ ret' = None
    /\ UNCHANGED <<ast, variables, stdout, stack, mode>>

\* Err(e) => errs.push(Simple::custom(e.1, e.0))
MainErr ==
    /\ mode = "run"
    /\ stack = <<>>
    /\ ret.tag = "Err"
    /\ errs' = Append(errs, ret.err)
    /\ idx' = idx + 1
    /\ ret' = None
    /\ UNCHANGED <<ast, variables, stdout, stack, mode>>

----------------------------------------------------------------------------
(* The programs evaluated *)

SeqsUpTo(S, n) == UNION {[1..m -> S] : m \in 0..n}

TextA == <<"a">>
TextB == <<"b">>
Zero == F64(FALSE, <<"0">>, <<>>)
Five == F64(FALSE, <<"5">>, <<>>)
Half == F64(FALSE, <<"0">>, <<"5">>)
MinusOne == F64(TRUE, <<"1">>, <<>>)

Display(args) == Call(Ident("display"), args)
Ranges == {Range(a, b) : a, b \in 0..MaxInt}

\* Statements of straight-line programs
SimpleStmts ==
    { Variable("x", NumericLiteral(Five)),
      Variable("x", Range(1, MaxInt)),
      Variable("y", Ident("x")),
      Display(<<Ident("x")>>),
      Display(<<StringLiteral(TextA), Ident("y"), Display(<<>>)>>),
      Call(Ident("f"), <<Ident("x")>>),
      Call(StringLiteral(TextA), <<>>),
      Ident("x"),
      Op(<<"%">>) }

\* Conditions of loops
Conds ==
    Ranges \cup
    { Range(-1, 1),
      BooleanLiteral(TRUE), BooleanLiteral(FALSE),
      NumericLiteral(Zero), NumericLiteral(Five),
      NumericLiteral(Half), NumericLiteral(MinusOne),
      StringLiteral(TextA), Display(<<>>),
      Ident("r"), Ident("u"), Op(<<".">>) }

\* Statements of loop bodies
BodyStmts ==
    { Display(<<StringLiteral(TextA)>>),
      Display(<<StringLiteral(TextB)>>),
      Display(<<Ident("r")>>),
      Variable("r", Range(0, 0)),
      Call(Ident("g"), <<>>),
      While(Range(1, MaxInt), <<Display(<<StringLiteral(TextB)>>)>>) }

\* What may precede a loop
Prefixes ==
    { <<>>,
      <<Variable("r", Range(0, MaxInt))>>,
      <<Variable("r", BooleanLiteral(TRUE))>>,
      <<Variable("r", NumericLiteral(Half))>> }

Programs ==
    SeqsUpTo(SimpleStmts, MaxProg) \cup
    { pre \o <<While(c, b)>> \o <<Display(<<Ident("r")>>)>> :
        pre \in Prefixes, c \in Conds, b \in SeqsUpTo(BodyStmts, MaxBody) }

\* The top-level statements with their spans
Parsed(prog) == [i \in 1..Len(prog) |-> Spanned(prog[i], i * 10000, 9999)]

EmptyMap == [x \in {} |-> VNull]

Init ==
    /\ ast \in {Parsed(prog) : prog \in Programs}
    /\ idx = 1
    /\ variables = EmptyMap
    /\ errs = <<>>
    /\ stdout = <<>>
    /\ stack = <<>>
    /\ ret = None
    /\ mode = "run"
    /\ src = <<>>
    /\ rest = <<>>
    /\ toks = <<>>
    /\ lexpc = "idle"

Next ==
    \/ MainEval /\ UNCHANGED lexVars
    \/ MainOk /\ UNCHANGED lexVars
    \/ MainErr /\ UNCHANGED lexVars
    \/ EvalLiteral /\ UNCHANGED lexVars
    \/ EvalIdent /\ UNCHANGED lexVars
    \/ EvalOp /\ UNCHANGED lexVars
    \/ Propagate /\ UNCHANGED lexVars
    \/ CallDisplay /\ UNCHANGED lexVars
    \/ CallNotFound /\ UNCHANGED lexVars
    \/ CallNonIdent /\ UNCHANGED lexVars
    \/ CallArg /\ UNCHANGED lexVars
    \/ CallArgRet /\ UNCHANGED lexVars
    \/ CallPrintln /\ UNCHANGED lexVars
    \/ VariableEnter /\ UNCHANGED lexVars
    \/ VariableInsert /\ UNCHANGED lexVars
    \/ WhileEnter /\ UNCHANGED lexVars
    \/ WhileNumber /\ UNCHANGED lexVars
    \/ WhileBoolean /\ UNCHANGED lexVars
    \/ WhileRange /\ UNCHANGED lexVars
    \/ WhileOther /\ UNCHANGED lexVars
    \/ RangeNext /\ UNCHANGED lexVars
    \/ LoopAgain /\ UNCHANGED lexVars
    \/ BodyStmt /\ UNCHANGED lexVars
    \/ BodyRet /\ UNCHANGED lexVars

Spec == Init /\ [][Next]_vars

----------------------------------------------------------------------------
(* What the claims are stated with *)

Max(a, b) == IF a >= b THEN a ELSE b

RECURSIVE Repeat(_, _)
Repeat(t, n) == IF n <= 0 THEN <<>> ELSE t \o Repeat(t, n - 1)

RECURSIVE Concat(_)
Concat(ts) == IF ts = <<>> THEN <<>> ELSE Head(ts) \o Concat(Tail(ts))

\* A display call whose arguments are all string literals, and its line
LiteralDisplay(n) ==
    /\ n.kind = "Call"
    /\ n.callee.kind = "Ident"
    /\ n.callee.name = "display"
    /\ \A j \in 1..Len(n.args) : n.args[j].kind = "StringLiteral"
LiteralLine(n) == Concat([j \in 1..Len(n.args) |-> n.args[j].s]) \o <<"\n">>
LiteralBody(body) == \A j \in 1..Len(body) : LiteralDisplay(body[j])
BodyLines(body) == Concat([j \in 1..Len(body) |-> LiteralLine(body[j])])

\* The text written since stdout was n characters long
Since(out, n) == SubSeq(out, n + 1, Len(out))

\* The innermost call ends in this step, handing r to its caller
Returns == Running /\ stack' = Pop /\ mode' = "run"

\* C1: a While whose condition evaluated to Range(start, end) and whose
\* body statements all succeed runs the whole body, in order, exactly
\* max(end - start, 0) times and then returns Null; with start >= end the
\* body runs zero times and nothing is written.
C1_RangeIterations ==
    [][(Returns /\ Top.pc = "range" /\ ret'.tag = "Ok") =>
        LET n == Max(Top.condition.end - Top.condition.start, 0) IN
        /\ ret'.val = VNull
        /\ Top.iters = n
        /\ Top.k = Len(Top.node.body) + 1
        /\ LiteralBody(Top.node.body) =>
               Since(stdout', Top.out0) = Repeat(BodyLines(Top.node.body), n)
        /\ n = 0 => stdout' = SubSeq(stdout, 1, Top.out0)]_vars

\* C1 witness: a range loop over two display statements is about to return
\* after two passes, "a", "b", "a", "b" written
C1_Witness ==
    /\ Running
    /\ Top.pc = "range"
    /\ Top.condition = VRange(0, 2)
    /\ Top.it = Top.end
    /\ Top.iters = 2
    /\ Top.k > Len(Top.node.body)
    /\ Since(stdout, Top.out0) = <<"a", "\n", "b", "\n", "a", "\n", "b", "\n">>

\* The value a leaf argument evaluates to, and the text the language gives
\* a value: Null is empty, a Range is start..end, a whole Number has no
\* fraction
ArgValue(arg) ==
    CASE arg.kind = "StringLiteral" -> [t |-> "String", s |-> arg.s]
      [] arg.kind = "Ident" -> variables[arg.name]
      [] arg.kind = "Call" -> [t |-> "Null"]
Rendered(v) ==
    CASE v.t = "Null" -> <<>>
      [] v.t = "String" -> v.s
      [] v.t = "Range" -> IntText(v.start) \o <<".", ".">> \o IntText(v.end)
      [] v.t = "Boolean" /\ v.b -> <<"t", "r", "u", "e">>
      [] v.t = "Number" /\ v.n = Five -> <<"5">>
      [] v.t = "Number" /\ v.n = Half -> <<"0", ".", "5">>
ArgsText(args, n) == Concat([j \in 1..n |-> Rendered(ArgValue(args[j]))])

\* C2: display evaluates its arguments left to right, writes one line, the
\* texts of the argument values with nothing between them and then a
\* newline, and returns Null; stdout only ever grows at its end, so the
\* lines stand in the order the calls were evaluated.
C2_DisplayLine ==
    /\ [](Running /\ Top.pc = "args" /\ ret.tag = "None" =>
            Top.result = ArgsText(Top.node.args, Top.k - 1))
    /\ [][/\ (Returns /\ Top.pc = "args" /\ ret'.tag = "Ok") =>
                /\ ret'.val = VNull
                /\ stdout' = stdout \o ArgsText(Top.node.args, Len(Top.node.args))
                                    \o <<"\n">>
          /\ SubSeq(stdout', 1, Len(stdout)) = stdout
          /\ (stdout' # stdout /\ stack # <<>>) => Top.pc = "args"]_vars

\* C2 witness: display(`a`, y, display()) with y = 1..2 has written the
\* inner empty line and then "a1..2"
C2_Witness ==
    /\ stack = <<>>
    /\ ret = Ok(VNull)
    /\ ast[idx].kind = "Call"
    /\ Len(ast[idx].args) = 3
    /\ stdout = <<"\n", "a", "1", ".", ".", "2", "\n">>

\* The bindings a straight-line program has made after its first n
\* statements: each `name := literal` binds the literal's value, each
\* `name := other` the value of `other` if it is bound
RECURSIVE RefEnv(_)
RefEnv(n) ==
    IF n = 0 THEN <<>>
    ELSE LET e == RefEnv(n - 1)
             st == ast[n]
         IN  CASE st.kind = "Variable" /\ st.value.kind = "NumericLiteral" ->
                    (st.name :> [t |-> "Number", n |-> st.value.n]) @@ e
               [] st.kind = "Variable" /\ st.value.kind = "Range" ->
                    (st.name :> [t |-> "Range", start |-> st.value.start,
                                 end |-> st.value.end]) @@ e
               [] st.kind = "Variable" /\ st.value.kind = "Ident"
                     /\ st.value.name \in DOMAIN e ->
                    (st.name :> e[st.value.name]) @@ e
               [] OTHER -> e

StraightLine == \A i \in 1..Len(ast) : ast[i].kind # "While"
BetweenStatements == mode = "run" /\ stack = <<>> /\ ret = None

\* C3: the environment holds, for each name, the value of the latest
\* binding that was evaluated successfully (the binding itself evaluates to
\* Null), so displaying x after x := 5 writes 5 and after a second binding
\* writes the second value.
C3_LatestBinding ==
    /\ []((BetweenStatements /\ StraightLine) =>
            /\ DOMAIN variables = DOMAIN RefEnv(idx - 1)
            /\ \A x \in DOMAIN variables : variables[x] = RefEnv(idx - 1)[x])
    /\ []((BetweenStatements /\ idx = 3
            /\ ast = Parsed(<<Variable("x", NumericLiteral(Five)),
                              Display(<<Ident("x")>>)>>)) =>
            stdout = <<"5", "\n">>)
    /\ []((BetweenStatements /\ idx = 4
            /\ ast = Parsed(<<Variable("x", NumericLiteral(Five)),
                              Variable("x", Range(1, MaxInt)),
                              Display(<<Ident("x")>>)>>)) =>
            stdout = IntText(1) \o <<".", ".">> \o IntText(MaxInt) \o <<"\n">>)
    /\ [][(Returns /\ Top.pc = "value" /\ ret'.tag = "Ok") =>
            /\ ret'.val = VNull
            /\ Top.node.name \in DOMAIN variables'
            /\ variables'[Top.node.name] = ret.val]_vars

\* C3 witness: x was bound to 5, then to a range, and the display of x
\* that follows has been evaluated
C3_Witness ==
    /\ BetweenStatements
    /\ idx = 4
    /\ ast = Parsed(<<Variable("x", NumericLiteral(Five)),
                      Variable("x", Range(1, MaxInt)),
                      Display(<<Ident("x")>>)>>)
    /\ variables["x"].t = "Range"

\* The identifiers eval can reach in a node: name, span, and whether the
\* identifier is the callee of a call or an expression
RECURSIVE Occurrences(_)
OccurrencesIn(ns) == UNION {Occurrences(ns[j]) : j \in 1..Len(ns)}
Occurrences(n) ==
    CASE n.kind = "Ident" -> {[name |-> n.name, span |-> n.span, role |-> "expr"]}
      [] n.kind = "Call" ->
            (IF n.callee.kind = "Ident"
             THEN {[name |-> n.callee.name, span |-> n.callee.span, role |-> "callee"]}
             ELSE {}) \cup OccurrencesIn(n.args)
      [] n.kind = "While" -> Occurrences(n.cond) \cup OccurrencesIn(n.body)
      [] n.kind = "Variable" -> Occurrences(n.value)
      [] OTHER -> {}

\* e is VariableNotFound for an identifier expression of `node`, or
\* FunctionNotFound for a callee of `node` other than display, with that
\* identifier's name and span
ErrorOf(e, node) ==
    \E o \in Occurrences(node) :
        /\ o.name = e.name
        /\ o.span = e.span
        /\ \/ e.kind = "VariableNotFound" /\ o.role = "expr"
           \/ e.kind = "FunctionNotFound" /\ o.role = "callee" /\ o.name # "display"

\* C4: an unbound Ident(n) fails with VariableNotFound(n) at the
\* identifier's span and leaves the environment alone, a bound one returns
\* its value; a call of a name other than display fails with
\* FunctionNotFound(name) at the callee's span; every error eval returns is
\* one of the two and reaches the caller unchanged.
C4_Errors ==
    /\ [](ret.tag = "Err" =>
            /\ ErrorOf(ret.err, ast[idx])
            /\ ret.err.kind = "VariableNotFound" => ret.err.name \notin DOMAIN variables)
    /\ [](\A i \in 1..Len(errs) : \E j \in 1..Len(ast) : ErrorOf(errs[i], ast[j]))
    /\ [][/\ Entering({"Ident"}) =>
                /\ Returns
                /\ variables' = variables
                /\ Top.node.name \in DOMAIN variables =>
                       ret' = [tag |-> "Ok", val |-> variables[Top.node.name]]
                /\ Top.node.name \notin DOMAIN variables =>
                       ret' = [tag |-> "Err",
                               err |-> [kind |-> "VariableNotFound",
                                        name |-> Top.node.name,
                                        span |-> Top.node.span]]
          /\ (Entering({"Call"}) /\ Top.node.callee.kind = "Ident"
                /\ Top.node.callee.name # "display") =>
                /\ Returns
                /\ ret' = [tag |-> "Err",
                           err |-> [kind |-> "FunctionNotFound",
                                    name |-> Top.node.callee.name,
                                    span |-> Top.node.callee.span]]
          /\ (Running /\ ret.tag = "Err") => (Returns /\ ret' = ret)
          /\ (stack = <<>> /\ ret.tag = "Err") => errs' = Append(errs, ret.err)]_vars

\* C4 witness: g() in the body of a loop has failed and the error is on its
\* way out through the While
C4_Witness ==
    /\ Running
    /\ Top.node.kind = "While"
    /\ ret.tag = "Err"
    /\ ret.err.kind = "FunctionNotFound"
    /\ ret.err.name = "g"
    /\ ret.err.span = Top.node.body[Top.k].callee.span

\* Whether the n-th statement of a straight-line program fails, given the
\* bindings made before it
RefFails(n) ==
    LET e == RefEnv(n - 1)
        st == ast[n]
        unbound(a) == a.kind = "Ident" /\ a.name \notin DOMAIN e
    IN  CASE st.kind = "Variable" -> unbound(st.value)
          [] st.kind = "Ident" -> unbound(st)
          [] st.kind = "Call" /\ st.callee.kind # "Ident" -> FALSE
          [] st.kind = "Call" /\ st.callee.name # "display" -> TRUE
          [] st.kind = "Call" -> \E j \in 1..Len(st.args) : unbound(st.args[j])
          [] OTHER -> FALSE

\* The top-level statement a span lies in
StatementOf(span) == span[1] \div 10000

\* C5: an evaluation error ends only its own top-level statement: main
\* evaluates the statements in source order against one environment,
\* records the errors in that order and goes on to the next statement,
\* the earlier bindings still in place.
C5_DriverContinues ==
    /\ [](\A i \in 1..Len(errs) :
            /\ StatementOf(errs[i].span) < idx
            /\ \A j \in 1..(i - 1) :
                   StatementOf(errs[j].span) < StatementOf(errs[i].span))
    /\ []((BetweenStatements /\ StraightLine) =>
            /\ {StatementOf(errs[i].span) : i \in 1..Len(errs)}
                   = {n \in 1..(idx - 1) : RefFails(n)}
            /\ DOMAIN variables = DOMAIN RefEnv(idx - 1))
    /\ []((BetweenStatements /\ idx <= Len(ast)) => ENABLED MainEval)
    /\ [][(mode = "run" /\ stack = <<>> /\ ret.tag = "Err") =>
            /\ idx' = idx + 1
            /\ errs' = Append(errs, ret.err)
            /\ variables' = variables
            /\ stdout' = stdout]_vars

\* C5 witness: display(x) failed as the first statement, and x := 5 and
\* display(x) after it were evaluated and wrote 5
C5_Witness ==
    /\ BetweenStatements
    /\ idx = 4
    /\ ast = Parsed(<<Display(<<Ident("x")>>),
                      Variable("x", NumericLiteral(Five)),
                      Display(<<Ident("x")>>)>>)
    /\ Len(errs) = 1
    /\ errs[1].kind = "VariableNotFound"
    /\ stdout = <<"5", "\n">>

\* A condition value that lets a While run its body
Permits(v) ==
    \/ v.t = "Range" /\ v.start < v.end
    \/ v.t = "Boolean" /\ v.b
    \/ v.t = "Number" /\ v.n \in {Five, Half}
Unbounded(v) == v.t # "Range" /\ Permits(v)

\* C6: a While whose condition is Boolean(true) or a Number above zero
\* evaluates the condition once, on entry, and then repeats its body
\* without bound: the call never returns a value, it can only end with the
\* error of a failing body statement.
C6_NeverReturns ==
    /\ [](\A i \in 1..Len(stack) : stack[i].pc = "loop" =>
            /\ stack[i].evals = 1
            /\ Unbounded(stack[i].condition))
    /\ [][/\ (Running /\ Top.pc = "cond" /\ ret.tag = "Ok" /\ Unbounded(ret.val)) =>
                /\ Len(stack') = Len(stack)
                /\ stack'[Len(stack)].pc = "loop"
          /\ \A i \in 1..Len(stack) : stack[i].pc = "loop" =>
                \/ /\ Len(stack') >= i
                   /\ stack'[i].pc = "loop"
                   /\ stack'[i].node = stack[i].node
                   /\ stack'[i].evals = 1
                \/ /\ Len(stack') = i - 1
                   /\ ret'.tag = "Err"]_vars

\* C6 witness: while true { display(`a`) .. } is in its loop and has
\* written at least two passes of its body
C6_Witness ==
    /\ Running
    /\ Top.pc = "loop"
    /\ Top.condition = VBoolean(TRUE)
    /\ Top.node.body # <<>>
    /\ LiteralBody(Top.node.body)
    /\ Len(Since(stdout, Top.out0)) >= 2 * Len(BodyLines(Top.node.body))

\* The While on top of the stack starts a pass over its body in this step
PassStarts ==
    /\ Running
    /\ Top.pc \in {"loop", "range"}
    /\ Len(stack') = Len(stack)
    /\ Top.k > Len(Top.node.body)
    /\ stack'[Len(stack)].pc = Top.pc
    /\ stack'[Len(stack)].k = 1

\* C7, as stated: the condition is evaluated afresh at the start of every
\* iteration, so a body that rebinds the variable the condition reads
\* decides whether a further iteration runs.
C7_ReevaluatedEachIteration ==
    [][PassStarts =>
        /\ (Top.pc = "range" /\ Top.iters >= 1) => Top.evals >= 2
        /\ (Top.node.cond.kind = "Ident" /\ Top.node.cond.name \in DOMAIN variables) =>
               Permits(variables[Top.node.cond.name])]_vars

\* C7, amended: the condition is evaluated exactly once, when the loop is
\* entered; the passes that run are decided by that value alone, and
\* rebinding in the body the variable the condition reads changes neither
\* whether nor how many further passes run.
C7_EvaluatedOnce ==
    /\ [](\A i \in 1..Len(stack) : stack[i].node.kind = "While" =>
            /\ stack[i].evals <= 1
            /\ stack[i].pc \in {"loop", "range"} => stack[i].evals = 1)
    /\ [][/\ PassStarts =>
                /\ Permits(Top.condition)
                /\ Top.pc = "range" =>
                       Top.iters < Top.condition.end - Top.condition.start
          /\ \A i \in 1..Len(stack) :
                (stack[i].pc \in {"loop", "range"} /\ Len(stack') >= i) =>
                    /\ stack'[i].condition = stack[i].condition
                    /\ stack'[i].end = stack[i].end
                    /\ stack'[i].it - stack'[i].iters = stack[i].it - stack[i].iters
          /\ (Returns /\ Top.pc = "range" /\ ret'.tag = "Ok") =>
                Top.iters = Max(Top.condition.end - Top.condition.start, 0)]_vars

\* C7 witness: `while r` entered with r = 0..2 is in its second pass
\* although its first pass rebound r to 0..0
C7_Witness ==
    /\ Running
    /\ Top.pc = "range"
    /\ Top.node.cond.kind = "Ident"
    /\ Top.condition = VRange(0, 2)
    /\ Top.iters = 2
    /\ Top.k = 1
    /\ variables[Top.node.cond.name] = VRange(0, 0)

\* C8: a node outside the defined semantics, an Op or a Call whose callee
\* is no Ident, ends in a defined failure (the run is aborted) and never in
\* a returned value with evaluation going on.
C8_NoSilentNoOp ==
    [][(Entering({"Op"}) \/ (Entering({"Call"}) /\ Top.node.callee.kind # "Ident")) =>
        (mode' = "panic" /\ ret'.tag # "Ok")]_vars

\* The call of g() that fails in a loop body
FailingCall(n) == n.kind = "Call" /\ n.callee.kind = "Ident" /\ n.callee.name = "g"

\* C10: in every kind of While the body statements run in order in each
\* pass, and the first one that fails ends the loop: nothing after it is
\* evaluated, the While returns exactly its error, and what was bound and
\* written before stays.
C10_BodyFailureAborts ==
    /\ []((Running /\ Top.pc \in {"loop", "range"} /\ ret.tag = "Err") =>
            /\ Top.k <= Len(Top.node.body)
            /\ ErrorOf(ret.err, Top.node.body[Top.k]))
    /\ []((mode = "run" /\ stack = <<>> /\ ret.tag = "Err"
            /\ ast[idx].kind = "While" /\ Len(ast[idx].body) = 2
            /\ FailingCall(ast[idx].body[2])) =>
            /\ LiteralDisplay(ast[idx].body[1]) =>
                   (ErrorOf(ret.err, ast[idx].body[2])
                        => stdout = LiteralLine(ast[idx].body[1]))
            /\ ast[idx].body[1].kind = "Variable" =>
                   (ErrorOf(ret.err, ast[idx].body[2])
                        => variables[ast[idx].body[1].name] = VRange(0, 0)))
    /\ [][/\ (Running /\ Top.pc \in {"loop", "range"} /\ ret.tag = "Err") =>
                /\ Returns
                /\ ret' = ret
                /\ variables' = variables
                /\ stdout' = stdout
          /\ (Running /\ Top.pc \in {"loop", "range"} /\ Len(stack') = Len(stack) + 1) =>
                /\ ret.tag = "None"
                /\ stack'[Len(stack')].node = Top.node.body[Top.k]
                /\ stack'[Len(stack)] = Top
          /\ (Running /\ Top.pc \in {"loop", "range"} /\ Len(stack') = Len(stack)
                /\ stack'[Len(stack)].pc = Top.pc /\ stack'[Len(stack)].k # Top.k) =>
                \/ ret.tag = "Ok" /\ stack'[Len(stack)].k = Top.k + 1
                \/ Top.k > Len(Top.node.body) /\ stack'[Len(stack)].k = 1]_vars

\* C10 witness: while true { display(`a`). g() } has ended with the error
\* of g, one "a" written
C10_Witness ==
    /\ mode = "run"
    /\ stack = <<>>
    /\ ret.tag = "Err"
    /\ ret.err.name = "g"
    /\ ast[idx].kind = "While"
    /\ ast[idx].cond.kind = "BooleanLiteral"
    /\ Len(ast[idx].body) = 2
    /\ stdout = <<"a", "\n">>

----------------------------------------------------------------------------
(* lexer: the grammar, on source texts of digits, operator characters and
   white space.  A parser takes the input left and gives Fail or the output
   with the input left after it. *)

Fail == [ok |-> FALSE]
Done(out, left) == [ok |-> TRUE, out |-> out, rest |-> left]
Drop(s, n) == SubSeq(s, n + 1, Len(s))

Digits == {DigitChars[i] : i \in 1..10}
Letters == {"a", "d", "e", "f", "h", "i", "l", "r", "s", "t", "u", "w", "x", "y", "_"}
Whitespace == {" ", "\t", "\n"}

\* The longest prefix of s made of characters of S
RECURSIVE Run(_, _)
Run(S, s) == IF s # <<>> /\ Head(s) \in S THEN <<Head(s)>> \o Run(S, Tail(s)) ELSE <<>>

\* .padded(): white space around a parser is skipped
SkipWhitespace(s) == Drop(s, Len(Run(Whitespace, s)))

\* just(word)
just(word, s) ==
    IF Len(s) >= Len(word) /\ SubSeq(s, 1, Len(word)) = word
    THEN Done(word, Drop(s, Len(word)))
    ELSE Fail

\* text::int(10): a digit other than 0 and the digits after it, or a single 0
text_int(s) ==
    CASE s # <<>> /\ Head(s) \in Digits \ {"0"} ->
            Done(Run(Digits, s), Drop(s, Len(Run(Digits, s))))
      [] s # <<>> /\ Head(s) = "0" -> Done(<<"0">>, Tail(s))
      [] OTHER -> Fail

\* text::ident(): a letter or underscore, then letters, digits, underscores
text_ident(s) ==
    IF s # <<>> /\ Head(s) \in Letters
    THEN Done(Run(Letters \cup Digits, s), Drop(s, Len(Run(Letters \cup Digits, s))))
    ELSE Fail

\* text::int(10).separated_by(just(sep)): the integers, and the input left;
\* a separator that no integer follows is not consumed
RECURSIVE separated_more(_, _)
separated_more(sep, s) ==
    LET j == just(sep, s)
        i == text_int(j.rest)
    IN  IF j.ok /\ i.ok
        THEN LET more == separated_more(sep, i.rest)
             IN  Done(<<i.out>> \o more.out, more.rest)
        ELSE Done(<<>>, s)
separated_by(sep, s) ==
    LET i == text_int(s)
    IN  IF i.ok
        THEN LET more == separated_more(sep, i.rest)
             IN  Done(<<i.out>> \o more.out, more.rest)
        ELSE Done(<<>>, s)

\* A decimal numeral without its leading zeros, without its trailing zeros
RECURSIVE Canonical(_)
Canonical(d) == IF Len(d) > 1 /\ Head(d) = "0" THEN Canonical(Tail(d)) ELSE d
RECURSIVE NoTrailingZeros(_)
NoTrailingZeros(d) ==
    IF d # <<>> /\ d[Len(d)] = "0" THEN NoTrailingZeros(SubSeq(d, 1, Len(d) - 1)) ELSE d

DigitValue(c) == CHOOSE v \in 0..9 : DigitChars[v + 1] = c

\* d <= e for numerals of one length
RECURSIVE NumeralLeq(_, _)
NumeralLeq(d, e) ==
    \/ d = <<>>
    \/ DigitValue(Head(d)) < DigitValue(Head(e))
    \/ Head(d) = Head(e) /\ NumeralLeq(Tail(d), Tail(e))

\* i64::MAX, 9223372036854775807
I64Max ==
    <<"9", "2", "2", "3", "3", "7", "2", "0", "3", "6",
      "8", "5", "4", "7", "7", "5", "8", "0", "7">>

\* str::parse::<i64> of a run of digits: the value, held as its numeral
\* without leading zeros, or Fail on overflow
parse_i64(d) ==
    LET c == Canonical(d)
    IN  IF Len(c) < Len(I64Max) \/ (Len(c) = Len(I64Max) /\ NumeralLeq(c, I64Max))
        THEN Done(c, <<>>)
        ELSE Fail

\* 2^63, 9223372036854775808
TwoTo63 == SubSeq(I64Max, 1, Len(I64Max) - 1) \o <<"8">>

\* str::parse::<f64> of digit runs joined by ".": "" and "a.b.c" are no
\* floats.  The value is exact for numerals of at most 15 digits and for
\* 2^63; i64::MAX rounds to 2^63.  The source texts of the model hold no
\* other numeral.
parse_f64(v) ==
    CASE Len(v) = 1 /\ (Len(v[1]) <= 15 \/ v[1] = TwoTo63) ->
            Done(F64(FALSE, Canonical(v[1]), <<>>), <<>>)
      [] Len(v) = 1 /\ v[1] = I64Max -> Done(F64(FALSE, TwoTo63, <<>>), <<>>)
      [] Len(v) = 2 /\ Len(v[1]) + Len(v[2]) <= 15 ->
            Done(F64(FALSE, Canonical(v[1]), NoTrailingZeros(v[2])), <<>>)
      [] Len(v) = 0 \/ Len(v) > 2 -> Fail

\* let number
number(s) ==
    LET v == separated_by(<<".">>, s)
        f == parse_f64(v.out)
    IN  IF f.ok THEN Done(NumericLiteral(f.out), v.rest) ELSE Fail

\* let range
range(s) ==
    LET v == separated_by(<<".", ".">>, s)
        v1 == parse_i64(v.out[1])
        v2 == parse_i64(v.out[2])
    IN  IF Len(v.out) < 2 THEN Fail
        ELSE IF ~v1.ok THEN Fail
        ELSE IF ~v2.ok THEN Fail
        ELSE Done(Range(v1.out, v2.out), v.rest)

\* The longest prefix of s made of characters outside S
RECURSIVE RunOutside(_, _)
RunOutside(S, s) ==
    IF s # <<>> /\ Head(s) \notin S THEN <<Head(s)>> \o RunOutside(S, Tail(s)) ELSE <<>>

\* The backtick, which a TLA+ string cannot hold
Backtick == "BACKTICK"

\* let string
string(s) ==
    LET open == just(<<Backtick>>, s)
        body == RunOutside({"\\", Backtick}, open.rest)
        close == just(<<Backtick>>, Drop(open.rest, Len(body)))
    IN  IF open.ok /\ close.ok THEN Done(StringLiteral(body), close.rest) ELSE Fail

\* let boolean
boolean(s) ==
    LET t == just(<<"t", "r", "u", "e">>, s)
        f == just(<<"f", "a", "l", "s", "e">>, s)
    IN  CASE t.ok -> Done(BooleanLiteral(TRUE), t.rest)
          [] f.ok -> Done(BooleanLiteral(FALSE), f.rest)
          [] OTHER -> Fail

\* let op
op(s) ==
    LET o == Run({"=", ".", ":", "%", ","}, s)
    IN  IF Len(o) >= 1 THEN Done(Op(o), Drop(s, Len(o))) ELSE Fail

\* let while_loop, let variable, let func_call: each starts with a keyword
\* or an identifier, which no source text of the model holds at the start
\* of an item; what follows them is not modelled
while_loop(s) == CASE ~just(<<"w", "h", "i", "l", "e">>, SkipWhitespace(s)).ok -> Fail
variable(s) == CASE ~text_ident(s).ok -> Fail
func_call(s) == CASE ~text_ident(s).ok -> Fail

\* p.or(q)
or(p, q) == IF p.ok THEN p ELSE q

\* tt with number tried before range
tt_number_first(s) ==
    or(while_loop(s), or(boolean(s), or(string(s), or(number(s), or(range(s),
    or(variable(s), or(op(s), func_call(s))))))))

\* while_loop.or(boolean).or(string).or(range).or(number).or(variable)
\*     .or(op).or(func_call): the first alternative that succeeds
tt(s) ==
    or(while_loop(s), or(boolean(s), or(string(s), or(range(s), or(number(s),
    or(variable(s), or(op(s), func_call(s))))))))

\* One item of the top-level `.repeated()`: tt with its span, white space
\* around it and the `.` or `;` that may end a statement
item(s) ==
    LET s1 == SkipWhitespace(s)
        r == tt(s1)
        s2 == SkipWhitespace(r.rest)
        end == or(just(<<".">>, s2), just(<<";">>, s2))
    IN  IF r.ok
        THEN Done(Spanned(r.out, Len(src) - Len(s1), Len(s1) - Len(r.rest)),
                  IF end.ok THEN end.rest ELSE s2)
        ELSE Fail

\* .repeated(): one more item
LexItem ==
    /\ lexpc = "items"
    /\ item(rest).ok
    /\ toks' = Append(toks, item(rest).out)
    /\ rest' = item(rest).rest
    /\ UNCHANGED <<src, lexpc>>

\* No further item and end(): the parse has succeeded
LexEnd ==
    /\ lexpc = "items"
    /\ ~item(rest).ok
    /\ rest = <<>>
    /\ lexpc' = "ok"
    /\ UNCHANGED <<src, rest, toks>>

\* No further item and input left: end() fails, a syntax error
LexError ==
    /\ lexpc = "items"
    /\ ~item(rest).ok
    /\ rest # <<>>
    /\ lexpc' = "err"
    /\ UNCHANGED <<src, rest, toks>>

(* The source texts *)

MaxNumeral == 12

SmallNumerals == {NatText(n) : n \in 0..MaxNumeral}
PaddedNumerals == {<<"0", "0">>, <<"0", "7">>, <<"0", "0", "7">>}
Numerals == SmallNumerals \cup PaddedNumerals \cup {I64Max, TwoTo63}

RangeTexts == {a \o <<".", ".">> \o b : a, b \in Numerals}

Sources ==
    RangeTexts
    \cup (SmallNumerals \cup PaddedNumerals)
    \cup {a \o <<".">> \o b : a, b \in SmallNumerals}
    \cup {a \o <<".">> \o b \o <<".">> \o a : a, b \in {<<"1">>, <<"2">>}}
    \cup {<<" ">> \o a \o <<".", ".">> \o b \o <<" ", ";", "\n">> \o b \o <<".">> :
            a, b \in {<<"0">>, <<"7">>}}

LexInit ==
    /\ src \in Sources
    /\ rest = src
    /\ toks = <<>>
    /\ lexpc = "items"
    /\ ast = <<>>
    /\ idx = 1
    /\ variables = EmptyMap
    /\ errs = <<>>
    /\ stdout = <<>>
    /\ stack = <<>>
    /\ ret = None
    /\ mode = "run"

LexNext ==
    \/ LexItem /\ UNCHANGED evalVars
    \/ LexEnd /\ UNCHANGED evalVars
    \/ LexError /\ UNCHANGED evalVars

SpecLex == LexInit /\ [][LexNext]_vars

\* A numeral written without leading zeros, and one that is at most
\* 2^63 - 1
Plain(d) == d = <<"0">> \/ Head(d) # "0"
InI64(d) == Len(d) < 19 \/ d = I64Max
Finished == lexpc \in {"ok", "err"}
WholeText == <<0, Len(src)>>

\* C9, as stated: for any two decimal integers a and b that fit in 64
\* bits, the text a..b parses to the single node Range(a, b).
C9_AnyIntegers ==
    \A a, b \in Numerals :
        (Finished /\ src = a \o <<".", ".">> \o b) =>
            /\ lexpc = "ok"
            /\ toks = <<[kind |-> "Range", start |-> Canonical(a),
                         end |-> Canonical(b), span |-> WholeText]>>

\* C9, amended: with range tried before number and op, the text a..b, for
\* decimal integers a and b written without sign and without leading zeros
\* and at most 2^63 - 1, parses to the single node Range(a, b), never to
\* NumericLiteral(a), Op("..") and NumericLiteral(b); such an integer alone,
\* or two of them joined by a single '.', is rejected by the range rule and
\* becomes one NumericLiteral.
C9_RangeBeforeNumber ==
    /\ \A a, b \in Numerals :
          (Finished /\ src = a \o <<".", ".">> \o b
              /\ Plain(a) /\ Plain(b) /\ InI64(a) /\ InI64(b)) =>
              /\ lexpc = "ok"
              /\ toks = <<[kind |-> "Range", start |-> a, end |-> b,
                           span |-> WholeText]>>
    /\ \A a \in SmallNumerals :
          (Finished /\ src = a) =>
              /\ lexpc = "ok"
              /\ ~range(src).ok
              /\ toks = <<[kind |-> "NumericLiteral",
                           n |-> [neg |-> FALSE, ip |-> a, fp |-> <<>>],
                           span |-> WholeText]>>
    /\ \A a, b \in SmallNumerals :
          (Finished /\ src = a \o <<".">> \o b) =>
              /\ lexpc = "ok"
              /\ ~range(src).ok
              /\ Len(toks) = 1
              /\ toks[1].kind = "NumericLiteral"
              /\ toks[1].span = WholeText
              /\ toks[1].n.ip = a
              /\ b[Len(b)] # "0" => toks[1].n.fp = b

\* C9 witness: the text 1..12 has been parsed, to one Range node
C9_Witness ==
    /\ lexpc = "ok"
    /\ src = <<"1", ".", ".", "1", "2">>
    /\ Len(toks) = 1
    /\ toks[1].kind = "Range"

====
